---- MODULE Spec2Model ----
(***************************************************************************)
(* Model of the Casbin policy compiler and hot-reload loop of gin-admin:   *)
(* Casbinx (internal/mods/rbac/main.go), the role mutation handlers that   *)
(* write the sync marker (biz/role.biz.go) and the authorization           *)
(* middleware (pkg/middleware/casbin.go).                                  *)
(***************************************************************************)
EXTENDS Integers, Sequences, FiniteSets, Bags, TLC

VARIABLES
    clock,          \* time.Now().Unix()
    casbinDisable,  \* config.C.Middleware.Casbin.Disable
    bootPc,         \* position of bootstrap.Run: "init", "loading", "serving", "failed"
    roles,          \* role table: id -> status, or "absent"
    roleMenus,      \* role_menu table: id -> set of linked menu ids
    menus,          \* menu table: id -> [status, parent_id, parent_path]
    menuResources,  \* menu_resource table: set of rows
    tx,             \* the open transaction of a mutation handler
    mutations,      \* number of mutation requests handled
    syncCache,      \* cache entry (CacheNSForRole, CacheKeyForSyncToCasbin)
    enforcer,       \* Casbinx.enforcer (*atomic.Value)
    policyFile,     \* gen_rbac_policy.csv
    bakFile,        \* gen_rbac_policy.csv.bak exists
    activeLoads,    \* number of load() calls executing
    ldPc,           \* position inside load()
    ldCaller,       \* who called load(): "Load" or "autoLoad"
    roleResult,     \* load: roleResult.Data
    prodIdx,        \* load: index of the producer loop over roleResult.Data
    queue,          \* load: channel of policyQueueItem
    queueClosed,    \* load: close(queue) done
    workers,        \* load: the worker goroutines (a bag), each with its ibuf
    buf,            \* load: the shared buffer
    failedRoles,    \* load: roles whose queryRoleResources returned an error
    produced,       \* load: the items sent into the queue
    ldErr,          \* load: the error returned (TRUE) or nil (FALSE)
    passStartEnf,   \* the value of Casbinx.enforcer when load() was entered
    alPc,           \* position of the autoLoad goroutine
    tickPending,    \* a tick is buffered in ticker.C
    lastUpdated,    \* autoLoad: lastUpdated
    alUpdated,      \* autoLoad: updated (of the tick being handled)
    failures,       \* number of injected infrastructure errors
    lastLog,        \* the last message the reload code logged since the tick
    requests,       \* number of requests the middleware has received
    reqPc,          \* position of the request inside the middleware
    reqEnf,         \* middleware: enforcer
    reqSubs,        \* middleware: config.GetSubjects(c)
    reqIdx,         \* middleware: index of the loop over the subjects
    reqObj,         \* middleware: (path, method) of the request
    reqOutcome,     \* what the middleware did with the request
    ticker,         \* Casbinx.ticker: "nil", "running" or "stopped"
    released,       \* Casbinx.Release has returned
    aggRole,        \* the role of the last queryRoleResources call observed
    aggResult,      \* what that call returned
    threadNum       \* load: config.C.Middleware.Casbin.LoadThread

vars == <<clock, casbinDisable, bootPc, roles, roleMenus, menus, menuResources,
          tx, mutations, syncCache, enforcer, policyFile, bakFile,
          activeLoads, ldPc, ldCaller, roleResult, prodIdx, queue, queueClosed,
          workers, buf, failedRoles, produced, ldErr, passStartEnf,
          alPc, tickPending, lastUpdated, alUpdated, failures, lastLog,
          requests, reqPc, reqEnf, reqSubs, reqIdx, reqObj, reqOutcome,
          ticker, released, aggRole, aggResult, threadNum>>

dbVars   == <<roles, roleMenus, menus, menuResources>>
txVars   == <<tx, mutations>>
fileVars == <<policyFile, bakFile>>
loadVars == <<activeLoads, ldPc, ldCaller, roleResult, prodIdx, queue,
              queueClosed, workers, buf, failedRoles, produced, ldErr,
              passStartEnf>>
autoVars == <<alPc, tickPending, lastUpdated, alUpdated>>
reqVars  == <<requests, reqPc, reqEnf, reqSubs, reqIdx, reqObj, reqOutcome>>
stopVars == <<ticker, released>>
aggVars  == <<aggRole, aggResult>>
cfgVars  == <<casbinDisable, threadNum>>
sideVars == <<cfgVars, stopVars, aggVars>>

----------------------------------------------------------------------------
(* Bounds *)

MaxClock     == 2   \* the clock runs over 1..MaxClock
MaxMutations == 2   \* mutation requests handled
MaxFailures  == 1   \* infrastructure errors injected
MaxRequests  == 1   \* requests received by the middleware
MaxThreads   == 3   \* the load thread numbers followed are 0..MaxThreads

(* Program constants *)

LoadThread == 2     \* config.C.Middleware.Casbin.LoadThread (default)

RoleStatusEnabled  == "enabled"
RoleStatusDisabled == "disabled"
MenuStatusEnabled  == "enabled"
MenuStatusDisabled == "disabled"
TreePathDelimiter  == "."

(* The store the model starts from: two roles, a page menu and its button; *)
(* the row M3 is created later                                             *)
RoleOrder == <<"editor", "exporter">>      \* rows of the role table
RoleIDs   == {RoleOrder[i] : i \in 1..Len(RoleOrder)}
MenuOrder == <<"M1", "M2", "M3">>          \* rows of the menu table
MenuIDs   == {MenuOrder[i] : i \in 1..Len(MenuOrder)}
Absent    == "absent"

NoMenu == [status |-> Absent, parent_id |-> "", parent_path |-> <<>>]

InitMenus ==
    [m \in MenuIDs |->
        IF m = "M1"
        THEN [status |-> MenuStatusEnabled, parent_id |-> "", parent_path |-> <<>>]
        ELSE IF m = "M2"
        THEN [status |-> MenuStatusEnabled, parent_id |-> "M1",
              parent_path |-> <<"M1", TreePathDelimiter>>]
        ELSE NoMenu]

InitMenuResources ==
    { [id |-> 1, menu_id |-> "M1", method |-> "GET",  path |-> "/api/v1/orders"],
      [id |-> 2, menu_id |-> "M1", method |-> "POST", path |-> "/api/v1/orders"],
      [id |-> 3, menu_id |-> "M2", method |-> "GET",  path |-> "/api/v1/orders/export"] }

(* a second row with the method and path of row 1, under the button M2 *)
SharedResource ==
    [id |-> 5, menu_id |-> "M2", method |-> "GET", path |-> "/api/v1/orders"]

Objects == { [path |-> r.path, method |-> r.method] : r \in InitMenuResources }

----------------------------------------------------------------------------
(* Strings of the sync marker: fmt.Sprintf("%d", n) and strconv.ParseInt   *)

Digits == <<"0", "1", "2", "3", "4", "5", "6", "7", "8", "9">>

DigitVal(c) == (CHOOSE i \in 1..10 : Digits[i] = c) - 1

IsDigit(c) == \E i \in 1..10 : Digits[i] = c

RECURSIVE FormatNat(_)
FormatNat(n) ==
    IF n < 10 THEN <<Digits[n + 1]>>
    ELSE Append(FormatNat(n \div 10), Digits[(n % 10) + 1])

FormatInt(n) == IF n < 0 THEN <<"-">> \o FormatNat(0 - n) ELSE FormatNat(n)

RECURSIVE ParseNat(_, _)
ParseNat(s, acc) ==
    IF s = <<>> THEN acc
    ELSE ParseNat(Tail(s), acc * 10 + DigitVal(Head(s)))

(* a parse that reads every string as a timestamp *)
ParseIntLenient(s) ==
    [err |-> FALSE,
     val |-> IF s # <<>> /\ \A i \in 1..Len(s) : IsDigit(s[i])
             THEN ParseNat(s, 0) ELSE 1]

ParseInt(s) ==
    LET body == IF s # <<>> /\ Head(s) \in {"+", "-"} THEN Tail(s) ELSE s
    IN  IF body = <<>> \/ \E i \in 1..Len(body) : ~IsDigit(body[i])
        THEN [err |-> TRUE, val |-> 0]
        ELSE [err |-> FALSE,
              val |-> IF Head(s) = "-" THEN 0 - ParseNat(body, 0)
                      ELSE ParseNat(body, 0)]

NoKey == [ok |-> FALSE, val |-> <<>>]
CacheVal(s) == [ok |-> TRUE, val |-> s]

----------------------------------------------------------------------------
(* Sequences *)

(* the rows of S in the order of their primary key *)
SortedRows(S) ==
    [i \in 1..Cardinality(S) |->
        CHOOSE r \in S : Cardinality({x \in S : x.id < r.id}) = i - 1]

Range(s) == {s[i] : i \in 1..Len(s)}

(* strings.Split(pp, TreePathDelimiter): the segments between delimiters,  *)
(* the (empty) one after the last delimiter included                       *)
RECURSIVE SplitPath(_, _)
SplitPath(pp, cur) ==
    IF pp = <<>> THEN <<cur>>
    ELSE IF Head(pp) = TreePathDelimiter
         THEN <<cur>> \o SplitPath(Tail(pp), "")
         ELSE SplitPath(Tail(pp), Head(pp))

(* Menu.Create: menu.ParentPath = parent.ParentPath + parent.ID + "."      *)
ChildPath(parent, parentID) ==
    IF parentID = "" THEN <<>>
    ELSE parent.parent_path \o <<parentID, TreePathDelimiter>>

----------------------------------------------------------------------------
(* Store queries *)

(* a role query without the status filter *)
QueryAllRoles == SelectSeq(RoleOrder, LAMBDA r : roles[r] # Absent)

(* RoleDAL.Query(Status: enabled), SelectFields id *)
QueryEnabledRoles == SelectSeq(RoleOrder, LAMBDA r : roles[r] = RoleStatusEnabled)

(* MenuDAL.Query(RoleID: roleID, Status: enabled) *)
QueryRoleMenus(roleID) ==
    LET hit(m) == /\ m \in roleMenus[roleID]
                  /\ menus[m].status = MenuStatusEnabled
        ids == SelectSeq(MenuOrder, hit)
    IN  [i \in 1..Len(ids) |->
            [id |-> ids[i], parent_id |-> menus[ids[i]].parent_id,
             parent_path |-> menus[ids[i]].parent_path]]

(* a query that leaves the filter on the menu ids out *)
QueryAllMenuResources(menuIDs) == SortedRows(menuResources)

(* MenuResourceDAL.Query(MenuIDs: menuIDs) *)
QueryMenuResources(menuIDs) ==
    SortedRows({r \in menuResources : r.menu_id \in menuIDs})

(* lines 324-335: the ids named in a parent path, empty segments skipped *)
ParentIDs(pp) ==
    IF pp = <<>> THEN {}
    ELSE {pid \in Range(SplitPath(pp, "")) : pid # ""}

(* a loop that leaves the parent paths out *)
CollectLinkedOnly(items, n) == {items[i].id : i \in 1..n}

(* lines 316-336: menuIDMapper after the loop over the first n items; an   *)
(* item whose id is already in the mapper is skipped with its parent path  *)
RECURSIVE CollectMenuIDs(_, _)
CollectMenuIDs(items, n) ==
    IF n = 0 THEN {}
    ELSE LET mapper == CollectMenuIDs(items, n - 1)
         IN  IF items[n].id \in mapper THEN mapper
             ELSE mapper \cup {items[n].id} \cup ParentIDs(items[n].parent_path)

(* lines 310-348: queryRoleResources from the answer of the menu query on  *)
RoleResources(menuResult) ==
    IF menuResult = <<>> THEN <<>>
    ELSE QueryMenuResources(CollectMenuIDs(menuResult, Len(menuResult)))

(* queryRoleResources, on a store that answers both queries *)
queryRoleResources(roleID) == RoleResources(QueryRoleMenus(roleID))

(* the orders in which the store can return the rows: the menu query of    *)
(* queryRoleResources names no ORDER BY                                    *)
RowOrders(rows) ==
    {p \in [1..Len(rows) -> Range(rows)] :
        \A i, j \in 1..Len(rows) : p[i] = p[j] => i = j}

----------------------------------------------------------------------------
(* Policy lines and the enforcer *)

(* fmt.Sprintf("p, %s, %s, %s \n", item.RoleID, res.Path, res.Method) *)
PolicyLine(roleID, res) == <<"p", roleID, res.path, res.method>>

ItemLines(item) ==
    [i \in 1..Len(item.Resources) |-> PolicyLine(item.RoleID, item.Resources[i])]

LineSet(lines) == Range(lines)

UnallocEnforcer == [state |-> "unalloc", gen |-> 0, policy |-> <<>>]
NilEnforcer     == [state |-> "nil", gen |-> 0, policy |-> <<>>]

(* casbin.NewEnforcer(modelFile, policyFile): the rules are the file's lines *)
NewEnforcer(file, gen) == [state |-> "set", gen |-> gen, policy |-> file.content]

(* Enforcer.Enforce(sub, obj, act) under the model file of the deployment *)
Enforce(e, sub, path, method) == <<"p", sub, path, method>> \in LineSet(e.policy)

(* a read path that takes the mutex of the pipeline *)
GetEnforcerLocksMutex == {"lock"}

(* the locks Casbinx.GetEnforcer acquires: atomic.Value.Load takes none *)
GetEnforcerLocks == {}

(* Casbinx.GetEnforcer: a.enforcer.Load() on a nil *atomic.Value panics *)
GetEnforcer ==
    IF enforcer.state = "unalloc" THEN [panic |-> TRUE, e |-> NilEnforcer]
    ELSE [panic |-> FALSE, e |-> enforcer]

NoFile == [exists |-> FALSE, content |-> <<>>]
File(c) == [exists |-> TRUE, content |-> c]

NoTx == [kind |-> "none", id |-> "", status |-> "", menus |-> {}]

(* n goroutines in the same state *)
Goroutines(w, n) == IF n > 0 THEN [x \in {w} |-> n] ELSE EmptyBag

NoWorkers == EmptyBag

InitSignals == {NoKey, CacheVal(<<"x">>), CacheVal(FormatInt(1))}

(* the forms the mutation requests carry *)
RoleForms ==
    { [id |-> "editor",   status |-> RoleStatusDisabled, menus |-> {"M1"}],
      [id |-> "editor",   status |-> RoleStatusEnabled,  menus |-> {}],
      [id |-> "exporter", status |-> RoleStatusDisabled, menus |-> {"M2"}],
      [id |-> "exporter", status |-> RoleStatusEnabled,  menus |-> {"M1"}] }

(* the forms the menu requests carry *)
MenuCreateForms ==
    { [id |-> "M3", parent_id |-> p, status |-> MenuStatusEnabled,
       resources |-> { [id |-> 4, menu_id |-> "M3", method |-> "DELETE",
                        path |-> "/api/v1/orders"] }] : p \in {"", "M2"} }

MenuUpdateForms ==
    { [id |-> "M1", status |-> MenuStatusDisabled,
       resources |-> {r \in InitMenuResources : r.menu_id = "M1"}],
      [id |-> "M2", status |-> MenuStatusEnabled, resources |-> {}] }

(* the role table and the role-menu links the process can find at its    *)
(* start: the editor linked to the page, the exporter to the button       *)
DefaultStore ==
    [roles     |-> [r \in RoleIDs |-> RoleStatusEnabled],
     roleMenus |-> [r \in RoleIDs |-> IF r = "editor" THEN {"M1"} ELSE {"M2"}],
     menus     |-> InitMenus,
     menuResources |-> InitMenuResources]

InitStores ==
    { DefaultStore,
      [DefaultStore EXCEPT !.roles["exporter"] = RoleStatusDisabled],
      [DefaultStore EXCEPT !.roles = [r \in RoleIDs |-> RoleStatusDisabled]],
      [DefaultStore EXCEPT !.roles["exporter"] = RoleStatusDisabled,
                           !.roleMenus["editor"] = {}] }

SubjectLists ==
    {<<>>} \cup {<<r>> : r \in RoleIDs}
           \cup {s \in RoleIDs \X RoleIDs : s[1] # s[2]}

----------------------------------------------------------------------------
(* the state after construction, before RBAC.Init, on the store st and    *)
(* with n configured as the number of load threads                         *)
BootWith(st, n) ==
    /\ threadNum = n
    /\ clock = 1
    /\ casbinDisable \in BOOLEAN
    /\ bootPc = "init"
    /\ roles = st.roles
    /\ roleMenus = st.roleMenus
    /\ menus = st.menus
    /\ menuResources = st.menuResources
    /\ tx = NoTx
    /\ mutations = 0
    /\ syncCache \in InitSignals
    /\ enforcer = UnallocEnforcer
    /\ policyFile = NoFile
    /\ bakFile = FALSE
    /\ activeLoads = 0
    /\ ldPc = "idle"
    /\ ldCaller = ""
    /\ roleResult = <<>>
    /\ prodIdx = 1
    /\ queue = <<>>
    /\ queueClosed = FALSE
    /\ workers = NoWorkers
    /\ buf = <<>>
    /\ failedRoles = {}
    /\ produced = <<>>
    /\ ldErr = FALSE
    /\ passStartEnf = UnallocEnforcer
    /\ alPc = "notStarted"
    /\ tickPending = FALSE
    /\ lastUpdated = 0
    /\ alUpdated = 0
    /\ lastLog = ""
    /\ requests = 0
    /\ reqPc = "idle"
    /\ reqEnf = NilEnforcer
    /\ reqSubs = <<>>
    /\ reqIdx = 1
    /\ reqObj = [path |-> "", method |-> ""]
    /\ reqOutcome = ""
    /\ ticker = "nil"
    /\ released = FALSE
    /\ aggRole = ""
    /\ aggResult = <<>>

(* the same with the default number of load threads *)
Boot(st) == BootWith(st, LoadThread)

Init ==
    /\ \E st \in InitStores : Boot(st)
    /\ failures = 0

----------------------------------------------------------------------------
(* Environment *)

(* one second passes *)
ClockTick ==
    /\ clock < MaxClock
    /\ clock' = clock + 1
    /\ UNCHANGED <<sideVars, bootPc, dbVars, txVars, syncCache, enforcer,
                   fileVars, loadVars, autoVars, failures, lastLog, reqVars>>

----------------------------------------------------------------------------
(* Role mutation handlers (biz.Role).  The statements of the transaction   *)
(* are invisible to other connections until the commit; syncToCasbin runs  *)
(* inside the transaction function, before the commit.                     *)

(* Role.syncToCasbin: Cache.Set(ns, key, fmt.Sprintf("%d", time.Now().Unix())) *)
syncToCasbin == CacheVal(FormatInt(clock))

(* the HTTP server runs (bootstrap starts it after RBAC.Init), no other   *)
(* mutation request is being handled                                      *)
CanMutate ==
    /\ bootPc = "serving"
    /\ tx.kind = "none"
    /\ mutations < MaxMutations

(* Role.Update up to the return of the transaction function *)
RoleUpdate(id, status, ms) ==
    /\ CanMutate
    /\ mutations' = mutations + 1
    /\ \/ /\ roles[id] = Absent          \* errors.NotFound
          /\ UNCHANGED <<tx, syncCache, failures>>
       \/ /\ roles[id] # Absent
          /\ failures < MaxFailures      \* Cache.Set fails: rollback
          /\ failures' = failures + 1
          /\ UNCHANGED <<tx, syncCache>>
       \/ /\ roles[id] # Absent
          /\ tx' = [kind |-> "update", id |-> id, status |-> status, menus |-> ms,
                    at |-> clock]
          /\ syncCache' = syncToCasbin
          /\ UNCHANGED failures
    /\ UNCHANGED <<clock, sideVars, bootPc, dbVars, enforcer, fileVars,
                   loadVars, autoVars, lastLog, reqVars>>

(* Role.Delete up to the return of the transaction function *)
RoleDelete(id) ==
    /\ CanMutate
    /\ mutations' = mutations + 1
    /\ \/ /\ roles[id] = Absent          \* errors.NotFound
          /\ UNCHANGED <<tx, syncCache, failures>>
       \/ /\ roles[id] # Absent
          /\ failures < MaxFailures      \* Cache.Set fails: rollback
          /\ failures' = failures + 1
          /\ UNCHANGED <<tx, syncCache>>
       \/ /\ roles[id] # Absent
          /\ tx' = [kind |-> "delete", id |-> id, status |-> "", menus |-> {},
                    at |-> clock]
          /\ syncCache' = syncToCasbin
          /\ UNCHANGED failures
    /\ UNCHANGED <<clock, sideVars, bootPc, dbVars, enforcer, fileVars,
                   loadVars, autoVars, lastLog, reqVars>>

(* Role.Create up to the return of the transaction function; the new id   *)
(* takes a row no role holds                                               *)
RoleCreate(id, status, ms) ==
    /\ CanMutate
    /\ roles[id] = Absent
    /\ mutations' = mutations + 1
    /\ \/ /\ failures < MaxFailures      \* Cache.Set fails: rollback
          /\ failures' = failures + 1
          /\ UNCHANGED <<tx, syncCache>>
       \/ /\ tx' = [kind |-> "update", id |-> id, status |-> status, menus |-> ms,
                    at |-> clock]
          /\ syncCache' = syncToCasbin
          /\ UNCHANGED failures
    /\ UNCHANGED <<clock, sideVars, bootPc, dbVars, enforcer, fileVars,
                   loadVars, autoVars, lastLog, reqVars>>

(* the statements of a menu handler's transaction, as the tables they     *)
(* leave at the commit                                                     *)
MenuTx(kind, menuTable, resTable, linkTable) ==
    [kind |-> kind, id |-> "", status |-> "", menus |-> {}, at |-> clock,
     menuTable |-> menuTable, resTable |-> resTable, linkTable |-> linkTable]

(* parent_path LIKE prefix% *)
HasPrefix(path, prefix) ==
    /\ Len(path) >= Len(prefix)
    /\ SubSeq(path, 1, Len(prefix)) = prefix

(* the menus under the menu id: their parent path starts with its own     *)
(* parent path followed by id and the delimiter                            *)
Descendants(id) ==
    {m \in MenuIDs :
        /\ menus[m] # NoMenu
        /\ HasPrefix(menus[m].parent_path, ChildPath(menus[id], id))}

(* Menu.Create up to the return of the transaction function: the menu and *)
(* its resources are created, syncToCasbin is not called                   *)
MenuCreate(id, parentID, status, resources) ==
    /\ CanMutate
    /\ menus[id] = NoMenu
    /\ mutations' = mutations + 1
    /\ \/ /\ parentID # ""
          /\ menus[parentID] = NoMenu   \* errors.NotFound
          /\ UNCHANGED <<tx, failures>>
       \/ /\ parentID # "" => menus[parentID] # NoMenu
          /\ failures < MaxFailures      \* a statement fails: rollback
          /\ failures' = failures + 1
          /\ UNCHANGED tx
       \/ /\ parentID # "" => menus[parentID] # NoMenu
          /\ tx' = MenuTx("menuCreate",
                    [menus EXCEPT ![id] =
                        [status |-> status, parent_id |-> parentID,
                         parent_path |->
                             IF parentID = "" THEN <<>>
                             ELSE ChildPath(menus[parentID], parentID)]],
                    menuResources \cup resources, roleMenus)
          /\ UNCHANGED failures
    /\ UNCHANGED <<clock, sideVars, bootPc, dbVars, syncCache, enforcer,
                   fileVars, loadVars, autoVars, lastLog, reqVars>>

(* Menu.Update, the parent and the code unchanged, up to the return of    *)
(* the transaction function                                                *)
MenuUpdate(id, status, resources) ==
    /\ CanMutate
    /\ mutations' = mutations + 1
    /\ \/ /\ menus[id] = NoMenu          \* errors.NotFound
          /\ UNCHANGED <<tx, syncCache, failures>>
       \/ /\ menus[id] # NoMenu
          /\ failures < MaxFailures      \* Cache.Set fails: rollback
          /\ failures' = failures + 1
          /\ UNCHANGED <<tx, syncCache>>
       \/ /\ menus[id] # NoMenu
          /\ tx' = MenuTx("menuUpdate",
                    [m \in MenuIDs |->
                        IF \/ m = id
                           \/ /\ menus[id].status # status
                              /\ m \in Descendants(id)
                        THEN [menus[m] EXCEPT !.status = status]
                        ELSE menus[m]],
                    {r \in menuResources : r.menu_id # id} \cup resources,
                    roleMenus)
          /\ syncCache' = syncToCasbin
          /\ UNCHANGED failures
    /\ UNCHANGED <<clock, sideVars, bootPc, dbVars, enforcer, fileVars,
                   loadVars, autoVars, lastLog, reqVars>>

(* Menu.Delete up to the return of the transaction function *)
MenuDelete(id) ==
    /\ CanMutate
    /\ mutations' = mutations + 1
    /\ \/ /\ menus[id] = NoMenu          \* errors.NotFound
          /\ UNCHANGED <<tx, syncCache, failures>>
       \/ /\ menus[id] # NoMenu
          /\ failures < MaxFailures      \* Cache.Set fails: rollback
          /\ failures' = failures + 1
          /\ UNCHANGED <<tx, syncCache>>
       \/ /\ menus[id] # NoMenu
          /\ LET gone == {id} \cup Descendants(id)
             IN  tx' = MenuTx("menuDelete",
                       [m \in MenuIDs |-> IF m \in gone THEN NoMenu ELSE menus[m]],
                       {r \in menuResources : r.menu_id \notin gone},
                       [r \in RoleIDs |-> roleMenus[r] \ gone])
          /\ syncCache' = syncToCasbin
          /\ UNCHANGED failures
    /\ UNCHANGED <<clock, sideVars, bootPc, dbVars, enforcer, fileVars,
                   loadVars, autoVars, lastLog, reqVars>>

(* the commit of DB.Transaction *)
TxCommit ==
    /\ tx.kind # "none"
    /\ IF tx.kind \in {"update", "delete"}
       THEN /\ roles' = [roles EXCEPT ![tx.id] =
                            IF tx.kind = "delete" THEN Absent ELSE tx.status]
            /\ roleMenus' = [roleMenus EXCEPT ![tx.id] = tx.menus]
            /\ UNCHANGED <<menus, menuResources>>
       ELSE /\ menus' = tx.menuTable
            /\ menuResources' = tx.resTable
            /\ roleMenus' = tx.linkTable
            /\ UNCHANGED roles
    /\ tx' = NoTx
    /\ UNCHANGED <<clock, sideVars, bootPc, mutations,
                   syncCache, enforcer, fileVars, loadVars, autoVars, failures,
                   lastLog, reqVars>>

(* the commit fails and the transaction is rolled back *)
TxRollback ==
    /\ tx.kind # "none"
    /\ failures < MaxFailures
    /\ failures' = failures + 1
    /\ tx' = NoTx
    /\ UNCHANGED <<clock, sideVars, bootPc, dbVars, mutations, syncCache,
                   enforcer, fileVars, loadVars, autoVars, lastLog, reqVars>>

----------------------------------------------------------------------------
(* Casbinx.load *)

(* entry of load(): fresh locals.  e: the value of the handle at entry *)
BeginLoad(caller, e) ==
    /\ activeLoads' = activeLoads + 1
    /\ ldPc' = "roleQuery"
    /\ ldCaller' = caller
    /\ roleResult' = <<>>
    /\ prodIdx' = 1
    /\ queue' = <<>>
    /\ queueClosed' = FALSE
    /\ workers' = NoWorkers
    /\ buf' = <<>>
    /\ failedRoles' = {}
    /\ produced' = <<>>
    /\ ldErr' = FALSE
    /\ passStartEnf' = e

(* a return statement of load() *)
LoadReturn(isErr) ==
    /\ activeLoads' = activeLoads - 1
    /\ ldPc' = "ret"
    /\ ldErr' = isErr
    /\ UNCHANGED <<ldCaller, roleResult, prodIdx, queue, queueClosed, workers,
                   buf, failedRoles, produced, passStartEnf>>

(* the locals of a load() that has returned are gone *)
EndLoad ==
    /\ ldPc' = "idle"
    /\ ldCaller' = ""
    /\ roleResult' = <<>>
    /\ prodIdx' = 1
    /\ queue' = <<>>
    /\ queueClosed' = FALSE
    /\ workers' = NoWorkers
    /\ buf' = <<>>
    /\ failedRoles' = {}
    /\ produced' = <<>>
    /\ ldErr' = FALSE
    /\ UNCHANGED <<activeLoads, passStartEnf>>

(* lines 211-230: the role query and the start of the workers *)
LoadRoleQuery ==
    /\ ldPc = "roleQuery"
    /\ \/ /\ failures < MaxFailures                \* RoleDAL.Query fails
          /\ failures' = failures + 1
          /\ LoadReturn(TRUE)
       \/ /\ QueryEnabledRoles = <<>>
          /\ LoadReturn(FALSE)
          /\ UNCHANGED failures
       \/ /\ QueryEnabledRoles # <<>>
          /\ roleResult' = QueryEnabledRoles
          /\ workers' = Goroutines([pc |-> "range", ibuf |-> <<>>], threadNum)
          /\ ldPc' = "produce"
          /\ UNCHANGED <<activeLoads, ldCaller, prodIdx, queue, queueClosed, buf,
                         failedRoles, produced, ldErr, passStartEnf, failures>>
    /\ UNCHANGED <<clock, sideVars, bootPc, dbVars, txVars, syncCache,
                   enforcer, fileVars, autoVars, lastLog, reqVars>>

(* a producer that returns the error of queryRoleResources *)
LoadProduceAbort ==
    /\ ldPc = "produce"
    /\ prodIdx <= Len(roleResult)
    /\ LET roleID == roleResult[prodIdx]
           item   == [RoleID |-> roleID, Resources |-> queryRoleResources(roleID)]
       IN  \/ /\ failures < MaxFailures
              /\ failures' = failures + 1
              /\ lastLog' = "Failed to query role resources"
              /\ failedRoles' = failedRoles \cup {roleID}
              /\ activeLoads' = activeLoads - 1
              /\ ldPc' = "ret"
              /\ ldErr' = TRUE
              /\ UNCHANGED <<queue, produced>>
           \/ /\ Len(queue) < Len(roleResult)
              /\ queue' = Append(queue, item)
              /\ produced' = Append(produced, item)
              /\ UNCHANGED <<failures, lastLog, failedRoles, activeLoads, ldPc,
                             ldErr>>
    /\ prodIdx' = prodIdx + 1
    /\ UNCHANGED <<clock, sideVars, bootPc, dbVars, txVars, syncCache,
                   enforcer, fileVars, ldCaller, roleResult, queueClosed, workers,
                   buf, passStartEnf, autoVars, reqVars>>

(* lines 250-261: one iteration of the producer loop *)
LoadProduce ==
    /\ ldPc = "produce"
    /\ prodIdx <= Len(roleResult)
    /\ LET roleID == roleResult[prodIdx]
           item   == [RoleID |-> roleID, Resources |-> queryRoleResources(roleID)]
       IN  \/ /\ failures < MaxFailures            \* queryRoleResources fails
              /\ failures' = failures + 1
              /\ lastLog' = "Failed to query role resources"
              /\ failedRoles' = failedRoles \cup {roleID}
              /\ UNCHANGED <<queue, produced>>
           \/ /\ Len(queue) < Len(roleResult)      \* capacity of the channel
              /\ queue' = Append(queue, item)
              /\ produced' = Append(produced, item)
              /\ UNCHANGED <<failures, lastLog, failedRoles>>
    /\ prodIdx' = prodIdx + 1
    /\ UNCHANGED <<clock, sideVars, bootPc, dbVars, txVars, syncCache,
                   enforcer, fileVars, activeLoads, ldPc, ldCaller, roleResult,
                   queueClosed, workers, buf, ldErr, passStartEnf, autoVars,
                   reqVars>>

(* a producer that goes on to the wait without closing the queue *)
LoadNoClose ==
    /\ ldPc = "produce"
    /\ prodIdx > Len(roleResult)
    /\ ldPc' = "wait"
    /\ UNCHANGED <<clock, sideVars, bootPc, dbVars, txVars, syncCache,
                   enforcer, fileVars, activeLoads, ldCaller, roleResult, prodIdx,
                   queue, queueClosed, workers, buf, failedRoles, produced, ldErr,
                   passStartEnf, autoVars, failures, lastLog, reqVars>>

(* line 262: close(queue); line 263 follows *)
LoadClose ==
    /\ ldPc = "produce"
    /\ prodIdx > Len(roleResult)
    /\ queueClosed' = TRUE
    /\ ldPc' = "wait"
    /\ UNCHANGED <<clock, sideVars, bootPc, dbVars, txVars, syncCache,
                   enforcer, fileVars, activeLoads, ldCaller, roleResult, prodIdx,
                   queue, workers, buf, failedRoles, produced, ldErr,
                   passStartEnf, autoVars, failures, lastLog, reqVars>>

(* lines 237-241: a worker receives an item and formats its lines *)
WorkerTake(w) ==
    /\ BagIn(w, workers)
    /\ w.pc = "range"
    /\ queue # <<>>
    /\ workers' = (workers (-) SetToBag({w}))
                      (+) SetToBag({[w EXCEPT !.ibuf = @ \o ItemLines(Head(queue))]})
    /\ queue' = Tail(queue)
    /\ UNCHANGED <<clock, sideVars, bootPc, dbVars, txVars, syncCache,
                   enforcer, fileVars, activeLoads, ldPc, ldCaller, roleResult,
                   prodIdx, queueClosed, buf, failedRoles, produced, ldErr,
                   passStartEnf, autoVars, failures, lastLog, reqVars>>

(* the mutex of line 225 is held by no worker *)
LockFree == \A w \in BagToSet(workers) : w.pc # "locked"

(* line 243: the range over the closed queue has ended, lock.Lock() *)
WorkerLock(w) ==
    /\ BagIn(w, workers)
    /\ w.pc = "range"
    /\ queue = <<>>
    /\ queueClosed
    /\ LockFree
    /\ workers' = (workers (-) SetToBag({w}))
                      (+) SetToBag({[w EXCEPT !.pc = "locked"]})
    /\ UNCHANGED <<clock, sideVars, bootPc, dbVars, txVars, syncCache,
                   enforcer, fileVars, activeLoads, ldPc, ldCaller, roleResult,
                   prodIdx, queue, queueClosed, buf, failedRoles, produced,
                   ldErr, passStartEnf, autoVars, failures, lastLog, reqVars>>

(* a merge that replaces the shared buffer *)
WorkerFlushOverwrite(w) ==
    /\ BagIn(w, workers)
    /\ w.pc = "locked"
    /\ buf' = w.ibuf
    /\ workers' = (workers (-) SetToBag({w})) (+) SetToBag({[w EXCEPT !.pc = "done"]})
    /\ UNCHANGED <<clock, sideVars, bootPc, dbVars, txVars, syncCache,
                   enforcer, fileVars, activeLoads, ldPc, ldCaller, roleResult,
                   prodIdx, queue, queueClosed, failedRoles, produced, ldErr,
                   passStartEnf, autoVars, failures, lastLog, reqVars>>

(* lines 244-245 and 234: the worker merges, unlocks and calls wg.Done() *)
WorkerFlush(w) ==
    /\ BagIn(w, workers)
    /\ w.pc = "locked"
    /\ buf' = buf \o w.ibuf
    /\ workers' = (workers (-) SetToBag({w})) (+) SetToBag({[w EXCEPT !.pc = "done"]})
    /\ UNCHANGED <<clock, sideVars, bootPc, dbVars, txVars, syncCache,
                   enforcer, fileVars, activeLoads, ldPc, ldCaller, roleResult,
                   prodIdx, queue, queueClosed, failedRoles, produced, ldErr,
                   passStartEnf, autoVars, failures, lastLog, reqVars>>

(* a wait that returns while workers still run *)
WaitGroupNoWait == TRUE

(* wg.Wait() can return: every worker has called wg.Done() *)
WaitGroupDone == \A w \in BagToSet(workers) : w.pc = "done"

(* line 263: wg.Wait() returns *)
LoadWait ==
    /\ ldPc = "wait"
    /\ WaitGroupDone
    /\ ldPc' = "publish"
    /\ UNCHANGED <<clock, sideVars, bootPc, dbVars, txVars, syncCache,
                   enforcer, fileVars, activeLoads, ldCaller, roleResult, prodIdx,
                   queue, queueClosed, workers, buf, failedRoles, produced, ldErr,
                   passStartEnf, autoVars, failures, lastLog, reqVars>>

(* a publish step that does not test the buffer *)
HasPolicyAlways(b) == TRUE

(* the test of line 266 *)
HasPolicy(b) == Len(b) > 0

(* lines 266-275: backup and write of the policy file; lines 289-295 when  *)
(* the buffer is empty                                                     *)
LoadPublish ==
    /\ ldPc = "publish"
    /\ IF ~HasPolicy(buf)
       THEN /\ lastLog' = "Casbin load policy"
            /\ LoadReturn(FALSE)
            /\ UNCHANGED <<fileVars, failures>>
       ELSE /\ bakFile' = (policyFile.exists \/ bakFile)       \* os.Rename
            /\ \/ /\ failures < MaxFailures        \* os.WriteFile fails
                  /\ failures' = failures + 1
                  /\ policyFile' \in {NoFile, File(<<>>)}
                  /\ lastLog' = "Failed to write policy file"
                  /\ LoadReturn(TRUE)
               \/ /\ policyFile' = File(buf)
                  /\ ldPc' = "build"
                  /\ UNCHANGED <<activeLoads, ldCaller, roleResult, prodIdx, queue,
                                 queueClosed, workers, buf, failedRoles, produced,
                                 ldErr, passStartEnf, failures, lastLog>>
    /\ UNCHANGED <<clock, sideVars, bootPc, dbVars, txVars, syncCache,
                   enforcer, autoVars, reqVars>>

(* a build step that clears the handle when the construction fails *)
LoadBuildClearOnError ==
    /\ ldPc = "build"
    /\ \/ /\ failures < MaxFailures
          /\ failures' = failures + 1
          /\ lastLog' = "Failed to create casbin enforcer"
          /\ LoadReturn(TRUE)
          /\ enforcer' = NilEnforcer
       \/ /\ enforcer' = NewEnforcer(policyFile, enforcer.gen + 1)
          /\ lastLog' = "Casbin load policy"
          /\ LoadReturn(FALSE)
          /\ UNCHANGED failures
    /\ UNCHANGED <<clock, sideVars, bootPc, dbVars, txVars, syncCache,
                   fileVars, autoVars, reqVars>>

(* lines 278-286 and 289-295: build the enforcer and store it *)
LoadBuild ==
    /\ ldPc = "build"
    /\ \/ /\ failures < MaxFailures                \* casbin.NewEnforcer fails
          /\ failures' = failures + 1
          /\ lastLog' = "Failed to create casbin enforcer"
          /\ LoadReturn(TRUE)
          /\ UNCHANGED enforcer
       \/ /\ enforcer' = NewEnforcer(policyFile, enforcer.gen + 1)
          /\ lastLog' = "Casbin load policy"
          /\ LoadReturn(FALSE)
          /\ UNCHANGED failures
    /\ UNCHANGED <<clock, sideVars, bootPc, dbVars, txVars, syncCache,
                   fileVars, autoVars, reqVars>>

----------------------------------------------------------------------------
(* Casbinx.Load and Casbinx.autoLoad *)

(* a Load that starts the loop although Casbin is disabled *)
LoadCallSpawnDisabled ==
    /\ bootPc = "init"
    /\ IF casbinDisable
       THEN /\ bootPc' = "serving"
            /\ alPc' = "spawned"
            /\ UNCHANGED <<enforcer, loadVars>>
       ELSE /\ enforcer' = NilEnforcer
            /\ BeginLoad("Load", NilEnforcer)
            /\ bootPc' = "loading"
            /\ UNCHANGED alPc
    /\ UNCHANGED <<clock, sideVars, dbVars, txVars, syncCache, fileVars,
                   tickPending, lastUpdated, alUpdated, failures, lastLog,
                   reqVars>>

(* Casbinx.Load, called by RBAC.Init, up to the call of load() *)
LoadCall ==
    /\ bootPc = "init"
    /\ IF casbinDisable
       THEN /\ bootPc' = "serving"
            /\ UNCHANGED <<enforcer, loadVars>>
       ELSE /\ enforcer' = NilEnforcer             \* new(atomic.Value)
            /\ BeginLoad("Load", NilEnforcer)
            /\ bootPc' = "loading"
    /\ UNCHANGED <<clock, sideVars, dbVars, txVars, syncCache, fileVars,
                   autoVars, failures, lastLog, reqVars>>

(* a Load that logs the error of load() and goes on *)
LoadDoneAbsorb ==
    /\ ldPc = "ret"
    /\ ldCaller = "Load"
    /\ EndLoad
    /\ bootPc' = "serving"
    /\ alPc' = "spawned"
    /\ UNCHANGED <<clock, sideVars, dbVars, txVars, syncCache, enforcer,
                   fileVars, tickPending, lastUpdated, alUpdated, failures,
                   lastLog, reqVars>>

(* Casbinx.Load, lines 198-204: load() has returned *)
LoadDone ==
    /\ ldPc = "ret"
    /\ ldCaller = "Load"
    /\ EndLoad
    /\ IF ldErr
       THEN /\ bootPc' = "failed"                  \* RBAC.Init returns the error
            /\ UNCHANGED alPc
       ELSE /\ bootPc' = "serving"
            /\ alPc' = "spawned"                   \* go a.autoLoad(ctx)
    /\ UNCHANGED <<clock, sideVars, dbVars, txVars, syncCache, enforcer,
                   fileVars, tickPending, lastUpdated, alUpdated, failures,
                   lastLog, reqVars>>

(* line 354: the goroutine creates the ticker *)
AutoLoadStart ==
    /\ alPc = "spawned"
    /\ alPc' = "waitTick"
    /\ ticker' = "running"                         \* a.ticker = time.NewTicker
    /\ UNCHANGED <<clock, cfgVars, released, aggVars, bootPc, dbVars,
                   txVars, syncCache, enforcer, fileVars, loadVars, tickPending,
                   lastUpdated, alUpdated, failures, lastLog, reqVars>>

(* the ticker sends into its channel of capacity 1; a tick that finds the  *)
(* channel full is dropped                                                 *)
TimerFire ==
    /\ alPc \in {"waitTick", "inLoad"}
    /\ ticker = "running"
    /\ ~tickPending
    /\ tickPending' = TRUE
    /\ UNCHANGED <<clock, sideVars, bootPc, dbVars, txVars, syncCache,
                   enforcer, fileVars, loadVars, alPc, lastUpdated, alUpdated,
                   failures, lastLog, reqVars>>

(* a tick handled while the previous one is still in load() *)
AutoLoadReentrant == alPc \in {"waitTick", "inLoad"}

(* the goroutine is at "for range a.ticker.C" *)
AutoLoadReady == alPc = "waitTick"

(* the comparison of line 373 turned around *)
HasUpdateInverted(last, updated) == updated < last

(* a comparison that also reloads on an equal timestamp *)
HasUpdateOrEqual(last, updated) == last <= updated

(* the test of line 373 *)
HasUpdate(last, updated) == last < updated

(* lines 355-374: one iteration of the loop, up to the call of load() *)
AutoLoadTick ==
    /\ AutoLoadReady
    /\ tickPending
    /\ tickPending' = FALSE
    /\ \/ /\ failures < MaxFailures                \* Cache.Get fails
          /\ failures' = failures + 1
          /\ lastLog' = "Failed to get cache"
          /\ UNCHANGED <<loadVars, alPc, lastUpdated, alUpdated>>
       \/ /\ ~syncCache.ok
          /\ lastLog' = ""
          /\ UNCHANGED <<loadVars, alPc, lastUpdated, alUpdated, failures>>
       \/ /\ syncCache.ok
          /\ ParseInt(syncCache.val).err
          /\ lastLog' = "Failed to parse cache value"
          /\ UNCHANGED <<loadVars, alPc, lastUpdated, alUpdated, failures>>
       \/ /\ syncCache.ok
          /\ ~ParseInt(syncCache.val).err
          /\ lastLog' = ""
          /\ LET updated == ParseInt(syncCache.val).val
             IN  IF HasUpdate(lastUpdated, updated)
                 THEN /\ BeginLoad("autoLoad", enforcer)
                      /\ alPc' = "inLoad"
                      /\ alUpdated' = updated
                      /\ UNCHANGED <<lastUpdated, failures>>
                 ELSE UNCHANGED <<loadVars, alPc, lastUpdated, alUpdated, failures>>
    /\ UNCHANGED <<clock, sideVars, bootPc, dbVars, txVars, syncCache,
                   enforcer, fileVars, reqVars>>

(* a loop that records the timestamp whatever load() returned *)
AutoLoadDoneAdvance ==
    /\ ldPc = "ret"
    /\ ldCaller = "autoLoad"
    /\ EndLoad
    /\ alPc' = "waitTick"
    /\ alUpdated' = 0
    /\ lastUpdated' = alUpdated
    /\ lastLog' = IF ldErr THEN "Failed to load casbin policy" ELSE lastLog
    /\ UNCHANGED <<clock, sideVars, bootPc, dbVars, txVars, syncCache,
                   enforcer, fileVars, tickPending, failures, reqVars>>

(* a loop that does not record the timestamp it has applied *)
AutoLoadDoneForget ==
    /\ ldPc = "ret"
    /\ ldCaller = "autoLoad"
    /\ EndLoad
    /\ alPc' = "waitTick"
    /\ alUpdated' = 0
    /\ lastLog' = IF ldErr THEN "Failed to load casbin policy" ELSE lastLog
    /\ UNCHANGED <<clock, sideVars, bootPc, dbVars, txVars, syncCache,
                   enforcer, fileVars, tickPending, lastUpdated, failures,
                   reqVars>>

(* a loop that deletes the signal it has applied *)
AutoLoadDoneConsume ==
    /\ ldPc = "ret"
    /\ ldCaller = "autoLoad"
    /\ EndLoad
    /\ alPc' = "waitTick"
    /\ alUpdated' = 0
    /\ IF ldErr
       THEN /\ lastLog' = "Failed to load casbin policy"
            /\ UNCHANGED <<lastUpdated, syncCache>>
       ELSE /\ lastUpdated' = alUpdated
            /\ syncCache' = NoKey
            /\ UNCHANGED lastLog
    /\ UNCHANGED <<clock, sideVars, bootPc, dbVars, txVars,
                   enforcer, fileVars, tickPending, failures, reqVars>>

(* lines 374-379: load() has returned to the loop *)
AutoLoadDone ==
    /\ ldPc = "ret"
    /\ ldCaller = "autoLoad"
    /\ EndLoad
    /\ alPc' = "waitTick"
    /\ alUpdated' = 0
    /\ IF ldErr
       THEN /\ lastLog' = "Failed to load casbin policy"
            /\ UNCHANGED lastUpdated
       ELSE /\ lastUpdated' = alUpdated
            /\ UNCHANGED lastLog
    /\ UNCHANGED <<clock, sideVars, bootPc, dbVars, txVars, syncCache,
                   enforcer, fileVars, tickPending, failures, reqVars>>

(* Casbinx.Release, called by the cleanup of bootstrap.Run.  A tick the    *)
(* ticker has already sent stays in its channel after Stop, or is          *)
(* discarded by it, depending on the toolchain the program is built with   *)
Release ==
    /\ bootPc = "serving"
    /\ ~released
    /\ ticker' = IF ticker = "running" THEN "stopped" ELSE ticker
    /\ tickPending' \in IF ticker = "running" THEN {tickPending, FALSE}
                                              ELSE {tickPending}
    /\ released' = TRUE
    /\ UNCHANGED <<clock, cfgVars, aggVars, bootPc, dbVars, txVars,
                   syncCache, enforcer, fileVars, loadVars, alPc, lastUpdated,
                   alUpdated, failures, lastLog, reqVars>>

----------------------------------------------------------------------------
(* middleware.CasbinWithConfig *)

ReqReset ==
    /\ reqPc' = "idle"
    /\ reqEnf' = NilEnforcer
    /\ reqSubs' = <<>>
    /\ reqIdx' = 1
    /\ reqObj' = [path |-> "", method |-> ""]

(* lines 37-49: the skip test and GetEnforcer.  skipped: the path is not   *)
(* under an allowed prefix, is under a skipped prefix, or the caller is    *)
(* the root user                                                           *)
ReqBegin(subs, obj, skipped) ==
    /\ bootPc = "serving"
    /\ reqPc = "idle"
    /\ requests < MaxRequests
    /\ skipped \/ casbinDisable \/ GetEnforcerLocks = {} \/ LockFree
    /\ requests' = requests + 1
    /\ IF skipped \/ casbinDisable
       THEN /\ reqOutcome' = "skipped"
            /\ ReqReset
       ELSE IF GetEnforcer.panic
       THEN /\ reqOutcome' = "panic"
            /\ ReqReset
       ELSE IF GetEnforcer.e.state = "nil"
       THEN /\ reqOutcome' = "denied"
            /\ ReqReset
       ELSE /\ reqPc' = "enforce"
            /\ reqEnf' = GetEnforcer.e
            /\ reqSubs' = subs
            /\ reqIdx' = 1
            /\ reqObj' = obj
            /\ reqOutcome' = ""
    /\ UNCHANGED <<clock, sideVars, bootPc, dbVars, txVars, syncCache,
                   enforcer, fileVars, loadVars, autoVars, failures, lastLog>>

(* a loop that denies as soon as one subject is refused *)
ReqEnforceFirstOnly ==
    /\ reqPc = "enforce"
    /\ IF reqIdx > Len(reqSubs)
       THEN /\ reqOutcome' = "denied"
            /\ ReqReset
       ELSE IF Enforce(reqEnf, reqSubs[reqIdx], reqObj.path, reqObj.method)
       THEN /\ reqOutcome' = "next"
            /\ ReqReset
       ELSE /\ reqOutcome' = "denied"
            /\ ReqReset
    /\ UNCHANGED requests
    /\ UNCHANGED <<clock, sideVars, bootPc, dbVars, txVars, syncCache,
                   enforcer, fileVars, loadVars, autoVars, failures, lastLog>>

(* a loop that reads the handle again for every subject *)
ReqEnforceReread ==
    /\ reqPc = "enforce"
    /\ IF reqIdx > Len(reqSubs)
       THEN /\ reqOutcome' = "denied"
            /\ ReqReset
       ELSE IF Enforce(GetEnforcer.e, reqSubs[reqIdx], reqObj.path, reqObj.method)
       THEN /\ reqOutcome' = "next"
            /\ ReqReset
       ELSE /\ reqIdx' = reqIdx + 1
            /\ reqEnf' = GetEnforcer.e
            /\ UNCHANGED <<reqPc, reqSubs, reqObj, reqOutcome>>
    /\ UNCHANGED requests
    /\ UNCHANGED <<clock, sideVars, bootPc, dbVars, txVars, syncCache,
                   enforcer, fileVars, loadVars, autoVars, failures, lastLog>>

(* lines 52-65: one iteration of the loop over the subjects, or its end *)
ReqEnforce ==
    /\ reqPc = "enforce"
    /\ IF reqIdx > Len(reqSubs)
       THEN /\ reqOutcome' = "denied"
            /\ ReqReset
       ELSE IF Enforce(reqEnf, reqSubs[reqIdx], reqObj.path, reqObj.method)
       THEN /\ reqOutcome' = "next"
            /\ ReqReset
       ELSE /\ reqIdx' = reqIdx + 1
            /\ UNCHANGED <<reqPc, reqEnf, reqSubs, reqObj, reqOutcome>>
    /\ UNCHANGED requests
    /\ UNCHANGED <<clock, sideVars, bootPc, dbVars, txVars, syncCache,
                   enforcer, fileVars, loadVars, autoVars, failures, lastLog>>

----------------------------------------------------------------------------
(* the reload loop and the start of the process *)
NextLoop ==
    \/ LoadCall
    \/ LoadRoleQuery
    \/ LoadProduce
    \/ LoadClose
    \/ \E w \in BagToSet(workers) : WorkerTake(w)
    \/ \E w \in BagToSet(workers) : WorkerLock(w)
    \/ \E w \in BagToSet(workers) : WorkerFlush(w)
    \/ LoadWait
    \/ LoadPublish
    \/ LoadBuild
    \/ LoadDone
    \/ AutoLoadStart
    \/ TimerFire
    \/ AutoLoadTick
    \/ AutoLoadDone

(* The reload loop on a store that no request changes *)
LoopSpec == Init /\ [][NextLoop]_vars

(* The reload loop, the clock and the mutation handlers *)
Next ==
    \/ NextLoop
    \/ ClockTick
    \/ \E f \in RoleForms : RoleUpdate(f.id, f.status, f.menus)
    \/ \E id \in RoleIDs : RoleDelete(id)
    \/ TxCommit
    \/ TxRollback

Spec == Init /\ [][Next]_vars

(* Every handler that changes the store, the clock and the start of the   *)
(* process                                                                 *)
NextStore ==
    \/ LoadCall
    \/ ClockTick
    \/ \E f \in RoleForms : RoleUpdate(f.id, f.status, f.menus)
    \/ \E id \in RoleIDs : RoleDelete(id)
    \/ TxCommit
    \/ TxRollback
    \/ \E f \in RoleForms : RoleCreate(f.id, f.status, f.menus)
    \/ \E f \in MenuCreateForms :
          MenuCreate(f.id, f.parent_id, f.status, f.resources)
    \/ \E f \in MenuUpdateForms : MenuUpdate(f.id, f.status, f.resources)
    \/ \E id \in MenuIDs : MenuDelete(id)

(* the handlers are followed on a process that runs with Casbin disabled,  *)
(* where Load returns at once and no reload pass interleaves               *)
StoreInit ==
    /\ \E st \in InitStores : Boot(st)
    /\ casbinDisable
    /\ failures = 0

StoreSpec == StoreInit /\ [][NextStore]_vars

(* The reload loop and the menu handlers, on the store of the example and *)
(* with an infrastructure that does not fail                               *)
NextTree ==
    \/ NextLoop
    \/ ClockTick
    \/ \E f \in MenuCreateForms :
          MenuCreate(f.id, f.parent_id, f.status, f.resources)
    \/ \E f \in MenuUpdateForms : MenuUpdate(f.id, f.status, f.resources)
    \/ \E id \in MenuIDs : MenuDelete(id)
    \/ TxCommit

TreeInit ==
    /\ Boot(DefaultStore)
    /\ ~casbinDisable
    /\ syncCache = NoKey
    /\ failures = MaxFailures

TreeSpec == TreeInit /\ [][NextTree]_vars

(* a request that is not skipped reaches the middleware *)
ReqArrive ==
    \E subs \in SubjectLists, obj \in Objects : ReqBegin(subs, obj, FALSE)

(* The reload loop and the authorization middleware *)
NextAuth ==
    \/ NextLoop
    \/ \E subs \in SubjectLists, obj \in Objects, skipped \in BOOLEAN :
          ReqBegin(subs, obj, skipped)
    \/ ReqEnforce

AuthSpec == Init /\ [][NextAuth]_vars

(* The reload loop and the shutdown of the process *)
NextShutdown ==
    \/ NextLoop
    \/ Release

ShutdownSpec == Init /\ [][NextShutdown]_vars

(* the stores a pass is followed on: those of the start and one in which  *)
(* two menus carry the same method and path                                *)
PipeStores ==
    InitStores \cup
        { [DefaultStore EXCEPT
              !.menuResources = InitMenuResources \cup {SharedResource}] }

PipeInit ==
    /\ \E st \in PipeStores, n \in 0..MaxThreads : BootWith(st, n)
    /\ failures = 0

(* The reload loop for every configured number of load threads *)
PipeSpec == PipeInit /\ [][NextLoop]_vars

(* The scheduling of the runtime: the ticker keeps sending, and the        *)
(* goroutines of the loop and of the pipeline keep running                 *)
LoopFairness ==
    /\ WF_vars(LoadRoleQuery)
    /\ WF_vars(LoadProduce)
    /\ WF_vars(LoadClose)
    /\ WF_vars(\E w \in BagToSet(workers) : WorkerTake(w))
    /\ WF_vars(\E w \in BagToSet(workers) : WorkerLock(w))
    /\ WF_vars(\E w \in BagToSet(workers) : WorkerFlush(w))
    /\ WF_vars(LoadWait)
    /\ WF_vars(LoadPublish)
    /\ WF_vars(LoadBuild)
    /\ WF_vars(AutoLoadStart)
    /\ WF_vars(TimerFire)
    /\ WF_vars(AutoLoadTick)
    /\ WF_vars(AutoLoadDone)

(* The reload loop under that scheduling *)
LiveSpec == LoopSpec /\ LoopFairness

(* The same for every configured number of load threads *)
PipeLiveSpec == PipeSpec /\ LoopFairness

----------------------------------------------------------------------------
(* queryRoleResources on the menu trees the menu handlers can build *)

(* the menu tables with M2 at the top or under M1, and M3 at the top,      *)
(* under M1 or under M2, each menu enabled or disabled                     *)
MenuTables ==
    { [m \in MenuIDs |->
          IF m = "M1" THEN [status |-> st["M1"], parent_id |-> "",
                            parent_path |-> <<>>]
          ELSE IF m = "M2" THEN [status |-> st["M2"], parent_id |-> p2,
                                 parent_path |-> ChildPath(NoMenu, p2)]
          ELSE [status |-> st["M3"], parent_id |-> p3,
                parent_path |->
                    IF p3 = "M2"
                    THEN ChildPath([NoMenu EXCEPT
                                      !.parent_path = ChildPath(NoMenu, p2)], p3)
                    ELSE ChildPath(NoMenu, p3)]] :
        st \in [MenuIDs -> {MenuStatusEnabled, MenuStatusDisabled}],
        p2 \in {"", "M1"}, p3 \in {"", "M1", "M2"} }

AggMenuResources ==
    InitMenuResources \cup
        { [id |-> 4, menu_id |-> "M3", method |-> "DELETE",
           path |-> "/api/v1/orders"] }

(* the resource tables: every pair of method and path under one menu, or *)
(* one pair under two menus                                                *)
AggResourceTables ==
    {AggMenuResources, AggMenuResources \cup {SharedResource}}

AggStores ==
    { [roles         |-> [r \in RoleIDs |-> RoleStatusEnabled],
       roleMenus     |-> [r \in RoleIDs |-> IF r = "editor" THEN ms ELSE {}],
       menus         |-> mt,
       menuResources |-> rt] :
        ms \in SUBSET MenuIDs, mt \in MenuTables, rt \in AggResourceTables }

AggInit ==
    /\ \E st \in AggStores : Boot(st)
    /\ failures = 0

(* one call of queryRoleResources that the store answers, the rows of the  *)
(* menu query in one of the orders the store can return them               *)
Aggregate(roleID) ==
    /\ aggRole = ""
    /\ aggRole' = roleID
    /\ \E menuResult \in RowOrders(QueryRoleMenus(roleID)) :
          aggResult' = RoleResources(menuResult)
    /\ UNCHANGED <<clock, cfgVars, stopVars, bootPc, dbVars, txVars,
                   syncCache, enforcer, fileVars, loadVars, autoVars, failures,
                   lastLog, reqVars>>

NextAgg == \E roleID \in RoleIDs : Aggregate(roleID)

AggSpec == AggInit /\ [][NextAgg]_vars

----------------------------------------------------------------------------
(* What the properties speak about *)

(* the lines of the items, in the order of the items *)
RECURSIVE FlattenLines(_)
FlattenLines(items) ==
    IF items = <<>> THEN <<>>
    ELSE ItemLines(Head(items)) \o FlattenLines(Tail(items))

(* the policy lines of the items the pass has sent to its workers *)
ProducedLines == LineSet(FlattenLines(produced))

(* a and b hold the same lines, each as often *)
SameLines(a, b) ==
    /\ Len(a) = Len(b)
    /\ \A x \in Range(a) \cup Range(b) :
          Cardinality({i \in 1..Len(a) : a[i] = x})
              = Cardinality({i \in 1..Len(b) : b[i] = x})

(* the timestamp the signal key holds, 0 when it holds none *)
SignalValue ==
    IF syncCache.ok /\ ~ParseInt(syncCache.val).err
    THEN ParseInt(syncCache.val).val
    ELSE 0

(* the lines of the resource rows the store holds for the given roles *)
RoleLines(rs) ==
    UNION { {PolicyLine(r, res) : res \in Range(queryRoleResources(r))} : r \in rs }

(* the number of rows the aggregation returns for the given roles *)
RECURSIVE RowCount(_)
RowCount(rs) ==
    IF rs = {} THEN 0
    ELSE LET r == CHOOSE x \in rs : TRUE
         IN  Len(queryRoleResources(r)) + RowCount(rs \ {r})

(* the lines the committed store compiles to *)
CompiledPolicy ==
    LineSet(FlattenLines(
        [i \in 1..Len(QueryEnabledRoles) |->
            [RoleID    |-> QueryEnabledRoles[i],
             Resources |-> queryRoleResources(QueryEnabledRoles[i])]]))

----------------------------------------------------------------------------
(* C1: in every state in which no load has stored an enforcer,             *)
(* GetEnforcer returns the nil sentinel, no request is inside the Enforce  *)
(* loop and the last request was skipped or denied.                        *)
C1_NilSentinelDenies ==
    enforcer.state # "set" =>
        /\ GetEnforcer = [panic |-> FALSE, e |-> NilEnforcer]
        /\ reqPc = "idle"
        /\ reqOutcome \in {"", "skipped", "denied"}

(* C1, as far as the requests go: while no load has stored an enforcer no  *)
(* request is let through, and the process serves with an unallocated      *)
(* handle only when Casbin is disabled (every request is then skipped).    *)
C1_FailClosed ==
    enforcer.state # "set" =>
        /\ reqPc = "idle"
        /\ reqOutcome \in {"", "skipped", "denied"}
        /\ (requests > 0 => reqOutcome # "")
        /\ (enforcer.state = "nil" =>
                GetEnforcer = [panic |-> FALSE, e |-> NilEnforcer])
        /\ (enforcer.state = "unalloc" /\ bootPc = "serving" => casbinDisable)

(* a request denied by a process that serves with the nil sentinel *)
C1_Witness ==
    /\ bootPc = "serving"
    /\ enforcer.state = "nil"
    /\ reqOutcome = "denied"

(* C2: every step that changes what GetEnforcer returns is either the      *)
(* allocation of the handle or the store of a pass whose workers have all  *)
(* merged: the new enforcer holds exactly the lines of the items of that   *)
(* pass, each once, and nothing of the previous generation; and the value  *)
(* a request reads is the value of the handle at that step.                *)
C2_SwapAtomicity ==
    [][ /\ GetEnforcer' # GetEnforcer =>
              \/ enforcer.state = "unalloc" /\ enforcer' = NilEnforcer
              \/ /\ ldPc = "build"
                 /\ \A w \in BagToSet(workers) : w.pc = "done"
                 /\ queue = <<>>
                 /\ enforcer'.state = "set"
                 /\ enforcer'.gen = enforcer.gen + 1
                 /\ enforcer'.policy = buf
                 /\ SameLines(buf, FlattenLines(produced))
        /\ (reqPc = "idle" /\ reqPc' = "enforce") =>
              /\ reqEnf' = GetEnforcer.e
              /\ reqEnf' = GetEnforcer'.e ]_vars

(* a request that evaluates on the first generation while the handle       *)
(* already holds the second                                                *)
C2_Witness ==
    /\ reqPc = "enforce"
    /\ reqEnf.gen = 1
    /\ enforcer.gen = 2

(* C3: at most one load() executes; a load() called by the loop is in      *)
(* flight exactly while the loop is inside its call, and then the initial  *)
(* load has returned.                                                      *)
C3_NonReentrant ==
    /\ activeLoads <= 1
    /\ (activeLoads = 1 <=> ldPc \notin {"idle", "ret"})
    /\ (ldPc # "idle" /\ ldCaller = "autoLoad" <=> alPc = "inLoad")
    /\ (alPc = "inLoad" => bootPc = "serving")

(* a tick waits in the channel while a pass of the loop runs *)
C3_Witness ==
    /\ activeLoads = 1
    /\ alPc = "inLoad"
    /\ tickPending

(* C4: lastUpdated changes only when the pass that returned has stored a   *)
(* new enforcer.                                                           *)
C4_AdvanceOnlyAfterSwap ==
    [][ lastUpdated' # lastUpdated =>
            /\ enforcer.state = "set"
            /\ enforcer # passStartEnf ]_vars

(* C5: once the loop has applied the timestamp the signal holds, with no   *)
(* pass and no transaction in flight and no error injected, the live       *)
(* enforcer allows exactly what the committed store compiles to.           *)
C5_NoLostUpdate ==
    ( /\ alPc = "waitTick"
      /\ tx = NoTx
      /\ failures = 0
      /\ mutations > 0
      /\ SignalValue > 0
      /\ lastUpdated = SignalValue )
    => LineSet(enforcer.policy) = CompiledPolicy

(* C6: while the loop runs, a timestamp in the signal above lastUpdated    *)
(* leads to lastUpdated reaching it.                                       *)
C6_PendingChangeApplied ==
    \A v \in 1..MaxClock :
        ( /\ alPc \in {"spawned", "waitTick", "inLoad"}
          /\ SignalValue = v
          /\ lastUpdated < v )
        ~> (lastUpdated >= v)

(* the loop has applied the timestamp of the signal in a run in which an   *)
(* error was injected                                                      *)
C6_Witness ==
    /\ alPc = "waitTick"
    /\ failures > 0
    /\ lastUpdated > 0
    /\ lastUpdated = SignalValue

(* C7: when a pass of the loop returns and lastUpdated advances, the       *)
(* enforcer GetEnforcer returns from then on allows exactly the lines      *)
(* compiled from the items that pass read.                                 *)
C7_AppliedPassGoverns ==
    [][ lastUpdated' # lastUpdated =>
            \A sub \in RoleIDs, obj \in Objects :
                Enforce(GetEnforcer'.e, sub, obj.path, obj.method)
                    <=> PolicyLine(sub, obj) \in ProducedLines ]_vars

(* C8: a pass of the loop that returned an error has left the handle as it *)
(* was when the pass started; the loop then logs the error, leaves         *)
(* lastUpdated as it is and waits for the next tick, and the process keeps *)
(* serving.                                                                *)
C8_FailedPassKeepsEnforcer ==
    /\ [](ldPc = "ret" /\ ldErr => enforcer = passStartEnf)
    /\ [][ (ldPc = "ret" /\ ldErr /\ ldCaller = "autoLoad" /\ ldPc' # "ret") =>
              /\ enforcer' = passStartEnf
              /\ lastUpdated' = lastUpdated
              /\ lastLog' = "Failed to load casbin policy"
              /\ alPc' = "waitTick"
              /\ bootPc' = "serving" ]_vars

(* the loop has logged a failed pass, holds the enforcer of before and     *)
(* will load again                                                         *)
C8_Witness ==
    /\ lastLog = "Failed to load casbin policy"
    /\ alPc = "waitTick"
    /\ enforcer.state = "set"
    /\ lastUpdated < SignalValue

(* C9: with an empty compiled buffer, no step of the publish phase changes *)
(* the policy file, its backup or the handle, and the pass returns with    *)
(* the handle as it was when the pass started.                             *)
C9_EmptyBufferKeepsEnforcer ==
    /\ [](ldPc \in {"publish", "ret"} /\ buf = <<>> => enforcer = passStartEnf)
    /\ [][ (ldPc = "publish" /\ buf = <<>>) =>
              /\ policyFile' = policyFile
              /\ bakFile' = bakFile
              /\ enforcer' = enforcer ]_vars

(* a pass over an enabled role ended with an empty buffer and the working  *)
(* policy is still in place                                                *)
C9_Witness ==
    /\ ldPc = "ret"
    /\ roleResult # <<>>
    /\ buf = <<>>
    /\ ~ldErr
    /\ enforcer.state = "set"
    /\ policyFile.content # <<>>
    /\ policyFile.content = enforcer.policy

(* C10: a pass in which the aggregation of some role failed and that has   *)
(* lines of another role returns an error only when the file write or the  *)
(* enforcer construction failed; otherwise it has stored a new enforcer    *)
(* that holds every line of the roles that were read and no line of a      *)
(* failed role.                                                            *)
C10_PartialFailureIsolated ==
    (ldPc = "ret" /\ failedRoles # {} /\ ProducedLines # {}) =>
        IF ldErr
        THEN lastLog \in {"Failed to write policy file",
                          "Failed to create casbin enforcer"}
        ELSE /\ enforcer.state = "set"
             /\ enforcer.gen = passStartEnf.gen + 1
             /\ ProducedLines \subseteq LineSet(enforcer.policy)
             /\ \A l \in LineSet(enforcer.policy) : l[2] \notin failedRoles

(* a pass with one failed role and one read role has stored its enforcer *)
C10_Witness ==
    /\ ldPc = "ret"
    /\ ~ldErr
    /\ failedRoles # {}
    /\ ProducedLines # {}
    /\ enforcer.gen = passStartEnf.gen + 1

(* C11: after queryRoleResources has answered for a role, the result holds *)
(* every resource row of every enabled menu linked to the role and every   *)
(* resource row of every menu named in such a menu's parent path, whether  *)
(* or not that ancestor is linked to the role.                             *)
C11_AncestorInheritance ==
    aggRole # "" =>
        \A m \in roleMenus[aggRole] :
            menus[m].status = MenuStatusEnabled =>
                \A r \in menuResources :
                    ( \/ r.menu_id = m
                      \/ \E i \in 1..Len(menus[m].parent_path) :
                            menus[m].parent_path[i] = r.menu_id )
                    => r \in Range(aggResult)

(* the role is linked to the button M3 only, M3 is under M2 under M1, and  *)
(* the result holds the rows of the three menus                            *)
C11_Witness ==
    /\ aggRole = "editor"
    /\ roleMenus["editor"] = {"M3"}
    /\ menus["M3"].parent_path = <<"M1", TreePathDelimiter, "M2", TreePathDelimiter>>
    /\ menus["M1"].status = MenuStatusDisabled
    /\ {r.menu_id : r \in Range(aggResult)} = {"M1", "M2", "M3"}

C13_ReadNeverWaits ==
    (bootPc = "serving" /\ reqPc = "idle" /\ requests < MaxRequests)
        => ENABLED ReqArrive

(* a request has read the handle while a worker holds the mutex *)
C13_Witness ==
    /\ reqPc = "enforce"
    /\ reqIdx = 1
    /\ ldPc = "wait"
    /\ ~LockFree

(* C14: the enforcer a request has read from the handle stays the one its  *)
(* Enforce calls are evaluated on until the request is answered, whatever  *)
(* is stored into the handle meanwhile.                                    *)
C14_SnapshotPerRequest ==
    [][ reqPc = "enforce" =>
          /\ reqPc' = "enforce" =>
                /\ reqEnf' = reqEnf
                /\ reqSubs' = reqSubs
                /\ reqObj' = reqObj
          /\ (reqPc' = "idle" /\ reqIdx <= Len(reqSubs)) =>
                /\ reqOutcome' = "next"
                /\ Enforce(reqEnf, reqSubs[reqIdx], reqObj.path, reqObj.method)
          /\ (reqPc' = "enforce" /\ reqIdx' # reqIdx) =>
                ~Enforce(reqEnf, reqSubs[reqIdx], reqObj.path, reqObj.method) ]_vars

(* between the first and the second Enforce call of a request a pass has   *)
(* stored an enforcer with other lines than the one the request holds      *)
C14_Witness ==
    /\ reqPc = "enforce"
    /\ reqIdx = 2
    /\ Len(reqSubs) = 2
    /\ enforcer.gen = reqEnf.gen + 1
    /\ LineSet(enforcer.policy) # LineSet(reqEnf.policy)

(* C15: whenever a transaction of a role or menu handler is committed and  *)
(* changes the store, the signal key holds the timestamp that handler      *)
(* took when it ran.                                                       *)
C15_CommitWritesSignal ==
    [][ dbVars' # dbVars => syncCache = CacheVal(FormatInt(tx.at)) ]_vars

(* C16: an error of the initial load() is returned by Load, so that        *)
(* RBAC.Init fails and no loop is started; an error of a pass of the loop  *)
(* or of its signal read is logged, leaves the start-up result alone and   *)
(* leaves the loop waiting for the next tick.                              *)
C16_ErrorPropagation ==
    /\ [](bootPc = "failed" => alPc = "notStarted" /\ activeLoads = 0)
    /\ [][ /\ (ldPc = "ret" /\ ldPc' # "ret" /\ ldCaller = "Load") =>
                  /\ (ldErr => bootPc' = "failed" /\ alPc' = "notStarted")
                  /\ (~ldErr => bootPc' = "serving" /\ alPc' = "spawned")
           /\ (ldPc = "ret" /\ ldPc' # "ret" /\ ldCaller = "autoLoad") =>
                  /\ bootPc' = bootPc
                  /\ alPc' = "waitTick"
                  /\ (ldErr => lastLog' = "Failed to load casbin policy")
           /\ (alPc = "waitTick" /\ tickPending /\ ~tickPending'
                                   /\ failures' # failures) =>
                  /\ bootPc' = bootPc
                  /\ alPc' = "waitTick"
                  /\ lastLog' = "Failed to get cache"
           /\ (alPc \in {"waitTick", "inLoad"}) =>
                  alPc' \in {"waitTick", "inLoad"} ]_vars

(* the initial load has failed and RBAC.Init has returned its error *)
C16_Witness ==
    /\ bootPc = "failed"
    /\ failures > 0
    /\ alPc = "notStarted"
    /\ enforcer = NilEnforcer

(* C17: once Release has returned the ticker does not run, and no reload   *)
(* pass is started afterwards.                                             *)
C17_NoPassAfterRelease ==
    /\ [](released => ticker # "running")
    /\ [][ released => ~(alPc = "waitTick" /\ alPc' = "inLoad") ]_vars

(* C18: when the loop has nothing left to apply (no pass is running, no    *)
(* transaction is open, last-applied has reached the signal) after a pass  *)
(* that stored an enforcer, the decisions of the live enforcer are those   *)
(* of the policy the committed store compiles to: no mutation that raced   *)
(* with a pass is left out.                                                *)
C18_RacingMutationReflected ==
    ( /\ alPc = "waitTick"
      /\ ldPc = "idle"
      /\ tx = NoTx
      /\ failures = 0
      /\ mutations > 0
      /\ enforcer.gen > 1
      /\ LineSet(enforcer.policy) # {}
      /\ lastUpdated >= SignalValue )
    => \A sub \in RoleIDs, obj \in Objects :
           Enforce(GetEnforcer.e, sub, obj.path, obj.method)
               <=> PolicyLine(sub, obj) \in CompiledPolicy

(* C19: a tick whose signal read succeeds and parses starts a pass, with   *)
(* the value read as the one to apply, if that value is greater than       *)
(* last-applied; otherwise it starts no pass and changes neither the       *)
(* loop's state, the enforcer, the policy file nor the store.              *)
C19_LevelTriggered ==
    [][ ( /\ alPc = "waitTick" /\ tickPending /\ ~tickPending'
          /\ released' = released /\ failures' = failures
          /\ syncCache.ok /\ ~ParseInt(syncCache.val).err ) =>
            IF ParseInt(syncCache.val).val > lastUpdated
            THEN /\ alPc' = "inLoad"
                 /\ ldPc' = "roleQuery"
                 /\ activeLoads' = activeLoads + 1
                 /\ alUpdated' = ParseInt(syncCache.val).val
                 /\ UNCHANGED <<lastUpdated, enforcer, fileVars, dbVars, syncCache>>
            ELSE UNCHANGED <<alPc, loadVars, lastUpdated, alUpdated, enforcer,
                             fileVars, dbVars, syncCache, bootPc>> ]_vars

(* a tick has found the timestamp that was already applied and the loop    *)
(* waits again                                                             *)
C19_Witness ==
    /\ alPc = "waitTick"
    /\ ~tickPending
    /\ lastLog = ""
    /\ lastUpdated > 0
    /\ lastUpdated = SignalValue

(* C20: a tick on which the signal read fails, the key is absent or the    *)
(* value holds a character that is no digit and no sign starts no pass,    *)
(* changes neither last-applied nor the enforcer, and leaves the loop      *)
(* waiting for the next tick.                                              *)
C20_BadSignalSkipsTick ==
    [][ ( /\ alPc = "waitTick" /\ tickPending /\ ~tickPending'
          /\ released' = released
          /\ \/ failures' # failures
             \/ ~syncCache.ok
             \/ syncCache.val = <<>>
             \/ \E i \in 1..Len(syncCache.val) :
                   /\ ~IsDigit(syncCache.val[i])
                   /\ syncCache.val[i] \notin {"+", "-"} ) =>
            /\ alPc' = "waitTick"
            /\ UNCHANGED <<loadVars, lastUpdated, alUpdated, enforcer, fileVars,
                           syncCache, ticker>> ]_vars

(* a tick has found a value that is no number, has logged it and the loop  *)
(* waits again                                                             *)
C20_Witness ==
    /\ alPc = "waitTick"
    /\ ~tickPending
    /\ lastLog = "Failed to parse cache value"
    /\ syncCache.ok
    /\ lastUpdated = 0

(* C21: for every number of load threads of at least one and every         *)
(* interleaving, once the wait on the workers has returned the shared      *)
(* buffer holds the lines of the items sent to the queue, each as often as *)
(* the items hold it; these are one line per resource row of every enabled *)
(* role whose aggregation did not fail, a set the store alone determines;  *)
(* and an enforcer stored by a pass without a failed role allows the lines *)
(* the store compiles to.                                                  *)
C21_DeterministicLineSet ==
    threadNum >= 1 =>
        /\ ldPc \in {"publish", "build"} =>
              /\ SameLines(buf, FlattenLines(produced))
              /\ LineSet(buf) = RoleLines(Range(roleResult) \ failedRoles)
              /\ Len(buf) = RowCount(Range(roleResult) \ failedRoles)
              /\ Range(roleResult) = Range(QueryEnabledRoles)
        /\ (ldPc = "ret" /\ ~ldErr /\ failedRoles = {} /\ enforcer # passStartEnf) =>
              LineSet(enforcer.policy) = CompiledPolicy

(* three workers have run, two of them have formatted the lines of one     *)
(* role each, and the wait has returned                                    *)
C21_Witness ==
    /\ ldPc = "publish"
    /\ threadNum = 3
    /\ failedRoles = {}
    /\ Cardinality({w \in BagToSet(workers) : w.ibuf # <<>>}) = 2
    /\ Len(buf) = 5

(* C22: the result of queryRoleResources for a role holds no two rows with *)
(* the same method and path.                                               *)
C22_DedupByMethodPath ==
    aggRole # "" =>
        \A i, j \in 1..Len(aggResult) :
            ( /\ aggResult[i].method = aggResult[j].method
              /\ aggResult[i].path = aggResult[j].path ) => i = j

(* C23: every row in the result of queryRoleResources for a role belongs   *)
(* to an enabled menu linked to the role or to a menu named in the parent  *)
(* path of such a menu; with the role linked to M1 only, no row of a menu  *)
(* under M1 is in the result.                                              *)
C23_UpwardOnly ==
    aggRole # "" =>
        /\ \A r \in Range(aggResult) :
              \E m \in roleMenus[aggRole] :
                  /\ menus[m].status = MenuStatusEnabled
                  /\ \/ r.menu_id = m
                     \/ \E i \in 1..Len(menus[m].parent_path) :
                           menus[m].parent_path[i] = r.menu_id
        /\ roleMenus[aggRole] = {"M1"} =>
              \A r \in Range(aggResult) : r.menu_id = "M1"

(* the role is linked to the page M1 only, the buttons M2 and M3 are under *)
(* it, and the result holds the two rows of M1                             *)
C23_Witness ==
    /\ aggRole = "editor"
    /\ roleMenus["editor"] = {"M1"}
    /\ menus["M1"].status = MenuStatusEnabled
    /\ menus["M2"].parent_path = <<"M1", TreePathDelimiter>>
    /\ menus["M2"].status = MenuStatusEnabled
    /\ menus["M3"].parent_path = <<"M1", TreePathDelimiter, "M2", TreePathDelimiter>>
    /\ {r.id : r \in Range(aggResult)} = {1, 2}

(* C24: the roles a pass reads are the roles enabled in the store at that  *)
(* read, and every line in the queue, in a worker's buffer, in the shared  *)
(* buffer and in the file the pass writes has one of the roles read as its *)
(* subject.                                                                *)
C24_OnlyEnabledRoles ==
    /\ [](ldPc \notin {"idle", "roleQuery"} =>
            /\ \A i \in 1..Len(buf) : buf[i][2] \in Range(roleResult)
            /\ \A i \in 1..Len(queue) : queue[i].RoleID \in Range(roleResult)
            /\ \A w \in BagToSet(workers) :
                  \A i \in 1..Len(w.ibuf) : w.ibuf[i][2] \in Range(roleResult))
    /\ [][ /\ (ldPc = "roleQuery" /\ ldPc' = "produce") =>
                  Range(roleResult') = {r \in RoleIDs : roles[r] = RoleStatusEnabled}
           /\ (ldPc = "publish" /\ ldPc' = "build") =>
                  \A i \in 1..Len(policyFile'.content) :
                      policyFile'.content[i][2] \in Range(roleResult) ]_vars

(* a pass has compiled the lines of the editor while the exporter, linked  *)
(* to a menu with resources, is disabled                                   *)
C24_Witness ==
    /\ ldPc = "publish"
    /\ roles["exporter"] = RoleStatusDisabled
    /\ roleMenus["exporter"] = {"M2"}
    /\ roleResult = <<"editor">>
    /\ Len(buf) = 2

(* C25: every item the producer of a pass sends to the queue holds only    *)
(* resource rows of menus that are enabled in the store the pass reads,    *)
(* whatever menu tree the menu handlers have built.                        *)
C25_NoDisabledMenuResource ==
    [][ Len(produced') > Len(produced) =>
            \A i \in 1..Len(produced'[Len(produced')].Resources) :
                menus[produced'[Len(produced')].Resources[i].menu_id].status
                    = MenuStatusEnabled ]_vars

(* C26: once GetEnforcer returns an enforcer it never again returns nil,   *)
(* and every step that changes what it returns is the store of a pass that *)
(* started from the enforcer it replaces, so that the enforcers returned   *)
(* follow the order of the passes; a request holds an enforcer that is the *)
(* live one or an earlier one.                                             *)
C26_MonotoneGenerations ==
    /\ [](reqPc = "enforce" =>
            /\ reqEnf.state = "set"
            /\ enforcer.state = "set"
            /\ reqEnf.gen <= enforcer.gen)
    /\ [][ GetEnforcer.e.state = "set" =>
              /\ ~GetEnforcer'.panic
              /\ GetEnforcer'.e.state = "set"
              /\ GetEnforcer'.e.gen >= GetEnforcer.e.gen
              /\ GetEnforcer'.e # GetEnforcer.e =>
                    /\ GetEnforcer'.e.gen = GetEnforcer.e.gen + 1
                    /\ passStartEnf = GetEnforcer.e
                    /\ ldPc = "build" ]_vars

(* a request has read the enforcer of the second pass *)
C26_Witness ==
    /\ reqPc = "enforce"
    /\ reqEnf.gen = 2
    /\ reqEnf = enforcer
    /\ lastUpdated = 1

(* C27: the goroutine of the loop is started only by the step in which the *)
(* initial load() returns nil to Load; with Casbin disabled or the initial *)
(* load failed there is no goroutine, no ticker and no load() in flight,   *)
(* and every pass other than the initial one is called by the goroutine.   *)
C27_LoopOnlyAfterInitialLoad ==
    /\ [](alPc # "notStarted" =>
            bootPc = "serving" /\ ~casbinDisable /\ enforcer.state # "unalloc")
    /\ []((bootPc = "failed" \/ (casbinDisable /\ bootPc = "serving")) =>
            /\ alPc = "notStarted"
            /\ ticker = "nil"
            /\ ~tickPending
            /\ activeLoads = 0
            /\ ldPc = "idle")
    /\ [](ldCaller = "autoLoad" => alPc = "inLoad")
    /\ [][ (alPc = "notStarted" /\ alPc' # "notStarted") =>
              /\ ldPc = "ret"
              /\ ldCaller = "Load"
              /\ ~ldErr
              /\ alPc' = "spawned" ]_vars

(* the process serves with Casbin disabled, the signal holds a timestamp   *)
(* and there is no loop                                                    *)
C27_Witness ==
    /\ bootPc = "serving"
    /\ casbinDisable
    /\ SignalValue = 1
    /\ alPc = "notStarted"
    /\ enforcer.state = "unalloc"

(* C28, as stated: without a signal write after the initial Load, the loop *)
(* is never inside a reload pass.                                          *)
C28_NoPassWithoutSignalWrite ==
    mutations = 0 => alPc # "inLoad"

(* C28, amended: without a signal write after the initial Load, the loop   *)
(* runs no pass while the key is absent or holds no timestamp above zero;  *)
(* when the cache already held a timestamp above zero at the start, the    *)
(* loop runs passes for it until one returns without error, records that   *)
(* timestamp and runs none afterwards.                                     *)
C28_StartupSignalAppliedOnce ==
    /\ [](mutations = 0 =>
            /\ alPc = "inLoad" => (SignalValue > 0 /\ lastUpdated = 0)
            /\ SignalValue = 0 => (alPc # "inLoad" /\ lastUpdated = 0)
            /\ lastUpdated \in {0, SignalValue})
    /\ [][ (mutations = 0 /\ ldPc = "ret" /\ ldCaller = "autoLoad"
                           /\ ldPc' # "ret") =>
              lastUpdated' = IF ldErr THEN 0 ELSE SignalValue ]_vars

(* no handler has written the signal and the loop is inside a pass for the *)
(* timestamp the cache held at the start                                   *)
C28_Witness ==
    /\ mutations = 0
    /\ alPc = "inLoad"
    /\ alUpdated = 1
    /\ syncCache = CacheVal(FormatInt(1))
    /\ enforcer.gen = 1

(* C29: for every number of load threads from zero on and whatever role    *)
(* aggregations fail, the queue has room whenever the producer is about to *)
(* send, a pass in flight always has a step to take, and every pass        *)
(* reaches its return.                                                     *)
C29_PassTerminates ==
    /\ []((ldPc = "produce" /\ prodIdx <= Len(roleResult)) =>
            /\ Len(queue) < Len(roleResult)
            /\ ENABLED LoadProduce)
    /\ [](ldPc \in {"roleQuery", "produce", "wait", "publish", "build"} =>
            ENABLED (\/ LoadRoleQuery \/ LoadProduce \/ LoadClose
                     \/ (\E w \in BagToSet(workers) : WorkerTake(w))
                     \/ (\E w \in BagToSet(workers) : WorkerLock(w))
                     \/ (\E w \in BagToSet(workers) : WorkerFlush(w))
                     \/ LoadWait \/ LoadPublish \/ LoadBuild))
    /\ (ldPc \in {"roleQuery", "produce", "wait", "publish", "build"})
           ~> (ldPc = "ret")

(* a pass without workers, with one role failed and one item left in the   *)
(* closed queue, has returned                                              *)
C29_Witness ==
    /\ ldPc = "ret"
    /\ threadNum = 0
    /\ failedRoles # {}
    /\ Len(queue) = 1
    /\ queueClosed
    /\ ~ldErr

(* C30: every step that changes the signal key is the step of a mutation   *)
(* handler that opens its transaction and writes the current time; such a  *)
(* step changes nothing of the loop or of a pass, and no step of the loop  *)
(* or of a pass changes the key.                                           *)
C30_PipelineReadsSignalOnly ==
    [][ /\ syncCache' # syncCache =>
              /\ mutations' = mutations + 1
              /\ tx.kind = "none"
              /\ tx'.kind # "none"
              /\ syncCache' = CacheVal(FormatInt(clock))
              /\ UNCHANGED <<loadVars, autoVars, enforcer, fileVars, lastLog>>
        /\ ( \/ <<loadVars, autoVars, enforcer, fileVars>>'
                   # <<loadVars, autoVars, enforcer, fileVars>>
             \/ bootPc' # bootPc ) =>
              syncCache' = syncCache ]_vars

(* the loop has applied a timestamp a handler wrote, and the key still     *)
(* holds it                                                                *)
C30_Witness ==
    /\ mutations > 0
    /\ alPc = "waitTick"
    /\ lastUpdated = 2
    /\ syncCache = CacheVal(FormatInt(2))
    /\ enforcer.gen >= 2

====
